---- MODULE Spec2Model ----
(***************************************************************************)
(* Connection pool of node-mysql2 (lib/pool.js, lib/pool_config.js).       *)
(* The pool object is a record of its fields; every method is an operator  *)
(* from pool state to pool state, and every action applies one method (or  *)
(* one callback the pool registered) to the current state.                 *)
(***************************************************************************)
EXTENDS Integers, Sequences, FiniteSets, TLC

\* ---------------------------------------------------------------- bounds
MaxConns == 3      \* PoolConnection objects constructed in one run
MaxReqs  == 3      \* getConnection calls (continuations) issued in one run
MaxEnds  == 1      \* calls of Pool.end in one run
MaxClock == 16     \* largest value of Date.now(), in seconds

Conns == 1..MaxConns
Reqs  == 1..MaxReqs
Ends  == 1..MaxEnds

NoConn == 0        \* "no connection" / "no continuation" / "no error"
Null   == 0 - 1    \* an option that was not provided (== null)

Min(a, b) == IF a <= b THEN a ELSE b
Max(a, b) == IF a >= b THEN a ELSE b
Range(q)  == {q[i] : i \in 1..Len(q)}

\* ------------------------------------------------------------ PoolConfig
DefaultConnectionLimit == 10
DefaultIdleTimeout     == 300
MinIdleTimeout         == 15

\* PoolConfig without the cap of minConnections at connectionLimit
PoolConfigUnclamped(options) ==
  LET connectionLimit ==
        IF options.connectionLimit = Null THEN DefaultConnectionLimit
        ELSE options.connectionLimit
  IN [ waitForConnections |->
         IF options.waitForConnections = Null THEN TRUE
         ELSE options.waitForConnections # 0,
       connectionLimit |-> connectionLimit,
       queueLimit |-> IF options.queueLimit = Null THEN 0 ELSE options.queueLimit,
       minConnections |->
         IF options.minConnections = Null THEN connectionLimit
         ELSE options.minConnections,
       idleTimeout |->
         Max(MinIdleTimeout,
             IF options.idleTimeout = Null THEN DefaultIdleTimeout
             ELSE options.idleTimeout) ]

PoolConfig(options) ==
  LET connectionLimit ==
        IF options.connectionLimit = Null THEN DefaultConnectionLimit
        ELSE options.connectionLimit
  IN [ waitForConnections |->
         IF options.waitForConnections = Null THEN TRUE
         ELSE options.waitForConnections # 0,
       connectionLimit |-> connectionLimit,
       queueLimit |->
         IF options.queueLimit = Null THEN 0 ELSE options.queueLimit,
       minConnections |->
         Min(connectionLimit,
             IF options.minConnections = Null THEN connectionLimit
             ELSE options.minConnections),
       idleTimeout |->
         Max(MinIdleTimeout,
             IF options.idleTimeout = Null THEN DefaultIdleTimeout
             ELSE options.idleTimeout) ]

\* options the pools of this model are constructed with
Options(cl, mc, w, q) ==
  [ connectionLimit |-> cl, minConnections |-> mc, waitForConnections |-> w,
    queueLimit |-> q, idleTimeout |-> MinIdleTimeout ]

PoolOptions ==
  { Options(0, Null, Null, 1),
    Options(1, Null, Null, Null),
    Options(1, 0, Null, 1),
    Options(1, Null, 0, Null),
    Options(0, Null, 0, Null),
    Options(2, 1, Null, Null) }

\* ------------------------------------------------------------ pool state
VARIABLES
  opts,               \* the options PoolConfig was constructed from
  config,             \* this.config
  allConnections,     \* this._allConnections   (Queue, front first)
  freeConnections,    \* this._freeConnections
  extraConnections,   \* this._extraConnections
  connectionQueue,    \* this._connectionQueue  (continuations waiting)
  closed,             \* this._closed
  expiredTimer,       \* this._expiredTimer is set
  poolRef,            \* connection._pool is set
  lastReleased,       \* connection._lastReleased
  created,            \* number of PoolConnection objects constructed
  connecting,         \* connection -> continuation of its pending connect()
  emitted,            \* connections announced by emit('connection')
  ticks,              \* the process.nextTick queue
  now,                \* Date.now()
  issued,             \* number of getConnection calls made by consumers
  cbCount,            \* continuation -> number of times it was invoked
  cbErr,              \* continuation -> error of its last invocation
  cbConn,             \* continuation -> connection of its last invocation
  held,               \* continuation's consumer holds cbConn, not released
  waitOrder,          \* continuations in the order of their latest enqueue
  resolved,           \* continuations in the order of their invocation
  endCalls,           \* number of Pool.end calls made
  calledBack,         \* end call -> its calledBack flag
  closedConnections,  \* end call -> its closedConnections counter
  endPending,         \* end call -> connections whose _realEnd is in flight
  endFirstFail,       \* end call -> first connection that reported failure
  endCbCount,         \* end call -> number of times its completion ran
  endErr              \* end call -> error its completion ran with

vars == << opts, config, allConnections, freeConnections, extraConnections,
           connectionQueue, closed, expiredTimer, poolRef, lastReleased,
           created, connecting, emitted, ticks, now, issued, cbCount, cbErr,
           cbConn, held, waitOrder, resolved, endCalls, calledBack,
           closedConnections, endPending, endFirstFail,
           endCbCount, endErr >>

St ==
  [ config |-> config, allConnections |-> allConnections,
    freeConnections |-> freeConnections,
    extraConnections |-> extraConnections,
    connectionQueue |-> connectionQueue, closed |-> closed,
    expiredTimer |-> expiredTimer, poolRef |-> poolRef,
    lastReleased |-> lastReleased, created |-> created,
    connecting |-> connecting, emitted |-> emitted, ticks |-> ticks,
    now |-> now, issued |-> issued, cbCount |-> cbCount, cbErr |-> cbErr,
    cbConn |-> cbConn, held |-> held, waitOrder |-> waitOrder,
    resolved |-> resolved, endCalls |-> endCalls, calledBack |-> calledBack,
    closedConnections |-> closedConnections, endPending |-> endPending,
    endFirstFail |-> endFirstFail, endCbCount |-> endCbCount,
    endErr |-> endErr ]

Becomes(s) ==
  /\ opts' = opts
  /\ config' = s.config
  /\ allConnections' = s.allConnections
  /\ freeConnections' = s.freeConnections
  /\ extraConnections' = s.extraConnections
  /\ connectionQueue' = s.connectionQueue
  /\ closed' = s.closed
  /\ expiredTimer' = s.expiredTimer
  /\ poolRef' = s.poolRef
  /\ lastReleased' = s.lastReleased
  /\ created' = s.created
  /\ connecting' = s.connecting
  /\ emitted' = s.emitted
  /\ ticks' = s.ticks
  /\ now' = s.now
  /\ issued' = s.issued
  /\ cbCount' = s.cbCount
  /\ cbErr' = s.cbErr
  /\ cbConn' = s.cbConn
  /\ held' = s.held
  /\ waitOrder' = s.waitOrder
  /\ resolved' = s.resolved
  /\ endCalls' = s.endCalls
  /\ calledBack' = s.calledBack
  /\ closedConnections' = s.closedConnections
  /\ endPending' = s.endPending
  /\ endFirstFail' = s.endFirstFail
  /\ endCbCount' = s.endCbCount
  /\ endErr' = s.endErr

\* the fields the Pool constructor sets, and no call made yet
Fresh ==
  /\ allConnections = << >>
  /\ freeConnections = << >>
  /\ extraConnections = << >>
  /\ connectionQueue = << >>
  /\ closed = FALSE
  /\ expiredTimer = FALSE
  /\ poolRef = [c \in Conns |-> FALSE]
  /\ lastReleased = [c \in Conns |-> 0]
  /\ created = 0
  /\ connecting = [c \in Conns |-> NoConn]
  /\ emitted = {}
  /\ ticks = << >>
  /\ now = 0
  /\ issued = 0
  /\ cbCount = [r \in Reqs |-> 0]
  /\ cbErr = [r \in Reqs |-> "none"]
  /\ cbConn = [r \in Reqs |-> NoConn]
  /\ held = [r \in Reqs |-> FALSE]
  /\ waitOrder = << >>
  /\ resolved = << >>
  /\ endCalls = 0
  /\ calledBack = [e \in Ends |-> FALSE]
  /\ closedConnections = [e \in Ends |-> 0]
  /\ endPending = [e \in Ends |-> {}]
  /\ endFirstFail = [e \in Ends |-> NoConn]
  /\ endCbCount = [e \in Ends |-> 0]
  /\ endErr = [e \in Ends |-> NoConn]

Init ==
  /\ opts \in PoolOptions
  /\ config = PoolConfig(opts)
  /\ Fresh

\* ------------------------------------------------- scheduling primitives
\* a task of the process.nextTick queue: either a continuation bound to its
\* arguments, or getConnection bound to a continuation
CbTask(cb, err, connection) ==
  [type |-> "cb", cb |-> cb, err |-> err, connection |-> connection]
GetTask(cb) ==
  [type |-> "getConnection", cb |-> cb, err |-> "none", connection |-> NoConn]

nextTick(s, task) == [s EXCEPT !.ticks = Append(@, task)]

\* cb(err, connection): the consumer's continuation runs
invoke(s, cb, err, connection) ==
  [s EXCEPT !.cbCount[cb] = @ + 1,
            !.cbErr[cb] = err,
            !.cbConn[cb] = connection,
            !.held[cb] = (err = "none" /\ connection # NoConn),
            !.resolved = Append(@, cb)]

\* --------------------------------------------------------- expiry timer
startExpiredTimer(s) == [s EXCEPT !.expiredTimer = TRUE]
stopExpiredTimer(s)  == [s EXCEPT !.expiredTimer = FALSE]

\* --------------------------------------------------------- getConnection
HasCapacityOffByOne(s) ==
  \/ s.config.connectionLimit = 0
  \/ Len(s.allConnections) <= s.config.connectionLimit

HasCapacityBoundedOnly(s) ==
  Len(s.allConnections) < s.config.connectionLimit

HasCapacity(s) ==
  \/ s.config.connectionLimit = 0
  \/ Len(s.allConnections) < s.config.connectionLimit

QueueLimitReachedOffByOne(s) ==
  /\ s.config.queueLimit # 0
  /\ Len(s.connectionQueue) > s.config.queueLimit

QueueLimitReachedAtZero(s) ==
  Len(s.connectionQueue) >= s.config.queueLimit

QueueLimitReached(s) ==
  /\ s.config.queueLimit # 0
  /\ Len(s.connectionQueue) >= s.config.queueLimit

\* the branch of getConnection that constructs a PoolConnection is taken
WouldCreate(s) ==
  /\ ~s.closed
  /\ Len(s.freeConnections) = 0
  /\ Len(s.extraConnections) = 0
  /\ HasCapacity(s)

\* this._freeConnections.shift()
shiftFreeKeep(s) == s
shiftFree(s) == [s EXCEPT !.freeConnections = Tail(@)]

enqueue(s, cb) ==
  [s EXCEPT !.connectionQueue = Append(@, cb),
            !.waitOrder = Append(SelectSeq(@, LAMBDA x : x # cb), cb)]

getConnection(s, cb) ==
  IF s.closed THEN
    nextTick(s, CbTask(cb, "PoolClosed", NoConn))
  ELSE IF Len(s.freeConnections) > 0 THEN
    nextTick(shiftFree(s), CbTask(cb, "none", Head(s.freeConnections)))
  ELSE IF Len(s.extraConnections) > 0 THEN
    nextTick([s EXCEPT !.extraConnections = SubSeq(@, 1, Len(@) - 1)],
             CbTask(cb, "none", s.extraConnections[Len(s.extraConnections)]))
  ELSE IF HasCapacity(s) THEN
    LET connection == s.created + 1
    IN [startExpiredTimer(s) EXCEPT
          !.created = connection,
          !.poolRef[connection] = TRUE,
          !.allConnections = Append(@, connection),
          !.connecting[connection] = cb]
  ELSE IF ~s.config.waitForConnections THEN
    nextTick(s, CbTask(cb, "NoConnectionsAvailable", NoConn))
  ELSE IF QueueLimitReached(s) THEN
    invoke(s, cb, "QueueLimitReached", NoConn)
  ELSE
    enqueue(s, cb)

\* the callback getConnection passes to connection.connect
\* the connect callback without its test of this._closed
connectCallbackNoClosedCheck(s, connection, err) ==
  LET cb == s.connecting[connection]
      s1 == [s EXCEPT !.connecting[connection] = NoConn]
  IN IF err # "none" THEN invoke(s1, cb, err, NoConn)
     ELSE invoke([s1 EXCEPT !.emitted = @ \cup {connection}],
                 cb, "none", connection)

connectCallback(s, connection, err) ==
  LET cb == s.connecting[connection]
      s1 == [s EXCEPT !.connecting[connection] = NoConn]
  IN IF s1.closed THEN invoke(s1, cb, "PoolClosed", NoConn)
     ELSE IF err # "none" THEN invoke(s1, cb, err, NoConn)
     ELSE invoke([s1 EXCEPT !.emitted = @ \cup {connection}],
                 cb, "none", connection)

\* ----------------------------------------------------- releaseConnection
dequeuePeek(s) == s
dequeue(s) == [s EXCEPT !.connectionQueue = Tail(@)]

\* a release that parks the connection in the free bucket and lets the
\* oldest waiter fetch it from there
releaseConnectionViaBucket(s, connection) ==
  IF s.poolRef[connection] /\ Len(s.connectionQueue) > 0 THEN
    nextTick([dequeue(s) EXCEPT !.freeConnections = Append(@, connection)],
             GetTask(Head(s.connectionQueue)))
  ELSE s

\* a release that returns a live connection to its idle bucket whether or
\* not a request waits
releaseConnectionIgnoreWaiters(s, connection) ==
  IF ~s.poolRef[connection] THEN
    IF Len(s.connectionQueue) > 0
    THEN nextTick(dequeue(s), GetTask(Head(s.connectionQueue)))
    ELSE s
  ELSE IF Len(s.freeConnections) >= s.config.minConnections THEN
    [s EXCEPT !.lastReleased[connection] = s.now,
              !.extraConnections = Append(@, connection)]
  ELSE
    [s EXCEPT !.freeConnections = Append(@, connection)]

releaseConnection(s, connection) ==
  IF ~s.poolRef[connection] THEN
    IF Len(s.connectionQueue) > 0
    THEN nextTick(dequeue(s), GetTask(Head(s.connectionQueue)))
    ELSE s
  ELSE IF Len(s.connectionQueue) > 0 THEN
    nextTick(dequeue(s), CbTask(Head(s.connectionQueue), "none", connection))
  ELSE IF Len(s.freeConnections) >= s.config.minConnections THEN
    [s EXCEPT !.lastReleased[connection] = s.now,
              !.extraConnections = Append(@, connection)]
  ELSE
    [s EXCEPT !.freeConnections = Append(@, connection)]

\* ----------------------------------------------------- _removeConnection
RECURSIVE spliceLoop(_, _, _)
\* the loop `for (; --len; )`, entered with len already decremented
spliceLoop(queue, connection, len) ==
  IF len = 0 THEN queue
  ELSE IF Head(queue) = connection THEN Tail(queue)
  ELSE spliceLoop(Append(Tail(queue), Head(queue)), connection, len - 1)

spliceConnection(queue, connection) ==
  LET len == Len(queue)
  IN IF len = 0 THEN queue
     ELSE IF queue[len] = connection THEN SubSeq(queue, 1, len - 1)
     ELSE spliceLoop(queue, connection, len - 1)

\* a removal that unlinks the connection from allConnections only
removeConnectionAllOnly(s, connection) ==
  LET s1 == [s EXCEPT
               !.allConnections = spliceConnection(@, connection)]
      s2 == releaseConnection(s1, connection)
  IN IF Len(s2.allConnections) = 0 THEN stopExpiredTimer(s2) ELSE s2

\* a removal that leaves the interval timer running
removeConnectionKeepTimer(s, connection) ==
  releaseConnection(
    [s EXCEPT !.allConnections = spliceConnection(@, connection),
              !.freeConnections = spliceConnection(@, connection),
              !.extraConnections = spliceConnection(@, connection)],
    connection)

removeConnection(s, connection) ==
  LET s1 == [s EXCEPT
               !.allConnections = spliceConnection(@, connection),
               !.freeConnections = spliceConnection(@, connection),
               !.extraConnections = spliceConnection(@, connection)]
      s2 == releaseConnection(s1, connection)
  IN IF Len(s2.allConnections) = 0 THEN stopExpiredTimer(s2) ELSE s2

\* the connection's forced removal: its back-reference to the pool is
\* cleared and the pool unlinks it
removeFromPool(s, connection) ==
  removeConnection([s EXCEPT !.poolRef[connection] = FALSE], connection)

\* connection.destroy() of a pooled connection
destroy(s, connection) == removeFromPool(s, connection)

\* -------------------------------------------------- _closeIdleConnections
\* the clock is kept in whole seconds, so the factor 1000 of
\* `idleTimeout * 1000` is divided out on both sides
IdleExpired(s, conn, nowRead) ==
  nowRead > s.lastReleased[conn] + s.config.idleTimeout

RECURSIVE closeIdleLoop(_, _)
closeIdleLoop(s, nowRead) ==
  IF Len(s.extraConnections) = 0 THEN s
  ELSE LET conn == Head(s.extraConnections)
       IN IF IdleExpired(s, conn, nowRead)
          THEN closeIdleLoop(
                 destroy([s EXCEPT !.extraConnections = Tail(@)], conn),
                 nowRead)
          ELSE s

closeIdleConnections(s) == closeIdleLoop(s, s.now)

\* ------------------------------------------------------------------- end
\* the aggregator's test `err || ++closedConnections >= allConnections.length`
endDone(s, e, err) ==
  \/ err # NoConn
  \/ s.closedConnections[e] + 1 >= Len(s.allConnections)

\* endCB(err) of the e-th call of end; a failed graceful end of connection c
\* reports the error c, a successful one reports NoConn
endCBUnguarded(s, e, err) ==
  LET s1 == IF err # NoConn THEN s
            ELSE [s EXCEPT !.closedConnections[e] = @ + 1]
  IN IF endDone(s, e, err)
     THEN [s1 EXCEPT !.calledBack[e] = TRUE,
                     !.endCbCount[e] = @ + 1,
                     !.endErr[e] = err]
     ELSE s1

endCB(s, e, err) ==
  IF s.calledBack[e] THEN s
  ELSE LET s1 == IF err # NoConn THEN s
                 ELSE [s EXCEPT !.closedConnections[e] = @ + 1]
       IN IF endDone(s, e, err)
          THEN [s1 EXCEPT !.calledBack[e] = TRUE,
                          !.endCbCount[e] = @ + 1,
                          !.endErr[e] = err]
          ELSE s1

end(s) ==
  LET e  == s.endCalls + 1
      s1 == stopExpiredTimer([s EXCEPT !.closed = TRUE, !.endCalls = e])
  IN IF Len(s1.allConnections) = 0 THEN endCB(s1, e, NoConn)
     ELSE [s1 EXCEPT !.endPending[e] = Range(s1.allConnections)]

\* the callback of connection._realEnd for the e-th call of end
realEndCallback(s, e, connection, ok) ==
  LET s1 == [s EXCEPT
               !.endPending[e] = @ \ {connection},
               !.endFirstFail[e] =
                  IF ~ok /\ @ = NoConn THEN connection ELSE @]
  IN endCB(s1, e, IF ok THEN NoConn ELSE connection)

\* ---------------------------------------------------------------- actions
ClockStep == MinIdleTimeout + 1

\* a consumer calls pool.getConnection(cb) with a fresh continuation
GetConnection ==
  /\ issued < MaxReqs
  /\ WouldCreate(St) => created < MaxConns
  /\ Becomes(getConnection([St EXCEPT !.issued = @ + 1], issued + 1))

\* the head of the nextTick queue runs
RunTick ==
  /\ Len(ticks) > 0
  /\ LET task == Head(ticks)
         s    == [St EXCEPT !.ticks = Tail(@)]
     IN IF task.type = "cb"
        THEN Becomes(invoke(s, task.cb, task.err, task.connection))
        ELSE /\ WouldCreate(s) => created < MaxConns
             /\ Becomes(getConnection(s, task.cb))

\* the establishment of a connection completes (an I/O completion: it runs
\* only after the nextTick queue has drained)
ConnectDone ==
  /\ Len(ticks) = 0
  /\ \E c \in Conns, err \in {"none", "ConnectError"} :
       /\ connecting[c] # NoConn
       /\ Becomes(connectCallback(St, c, err))

\* the consumer holding a connection gives it back
Release ==
  \E r \in Reqs :
    /\ held[r]
    /\ Becomes(releaseConnection([St EXCEPT !.held[r] = FALSE], cbConn[r]))

\* a connection fails outside the acquire/release flow
RemoveConnection ==
  \E c \in Conns :
    /\ c <= created
    /\ Becomes(removeFromPool(St, c))

\* the interval timer fires
Sweep ==
  /\ expiredTimer
  /\ Len(ticks) = 0
  /\ Becomes(closeIdleConnections(St))

AdvanceClock ==
  /\ Len(ticks) = 0
  /\ now + ClockStep <= MaxClock
  /\ Becomes([St EXCEPT !.now = @ + ClockStep])

End ==
  /\ endCalls < MaxEnds
  /\ Becomes(end(St))

RealEndDone ==
  /\ Len(ticks) = 0
  /\ \E e \in Ends, c \in Conns, ok \in BOOLEAN :
       /\ c \in endPending[e]
       /\ Becomes(realEndCallback(St, e, c, ok))

Next ==
  \/ GetConnection
  \/ RunTick
  \/ ConnectDone
  \/ Release
  \/ RemoveConnection
  \/ Sweep
  \/ AdvanceClock
  \/ End
  \/ RealEndDone

Spec == Init /\ [][Next]_vars

\* ------------------------------------------- PoolConfig on its own inputs
\* option values PoolConfig is applied to: absent, below, at and above the
\* defaults and the floor
ConfigOptions ==
  [ connectionLimit    : {Null, 0, 1, 2, 20},
    minConnections     : {Null, 0, 1, 3, 30},
    waitForConnections : {Null, 0, 1},
    queueLimit         : {Null, 0, 2},
    idleTimeout        : {Null, 0, 14, 15, 16, 400} ]

InitConfig ==
  /\ opts = [ connectionLimit |-> Null, minConnections |-> Null,
              waitForConnections |-> Null, queueLimit |-> Null,
              idleTimeout |-> Null ]
  /\ config = PoolConfig(opts)
  /\ Fresh

\* new PoolConfig(options)
Configure ==
  \E o \in ConfigOptions :
    /\ opts' = o
    /\ config' = PoolConfig(o)
    /\ UNCHANGED << allConnections, freeConnections, extraConnections,
                    connectionQueue, closed, expiredTimer, poolRef,
                    lastReleased, created, connecting, emitted, ticks, now,
                    issued, cbCount, cbErr, cbConn, held, waitOrder,
                    resolved, endCalls, calledBack, closedConnections,
                    endPending, endFirstFail, endCbCount, endErr >>

SpecConfig == InitConfig /\ [][Configure]_vars

\* ------------------------------------------- runs of a pool never shut down
\* pools with a connection limit, whose requests can wait
LiveOptions ==
  { Options(1, Null, Null, Null),
    Options(1, 0, Null, 1),
    Options(2, 1, Null, Null) }

InitLive ==
  /\ opts \in LiveOptions
  /\ config = PoolConfig(opts)
  /\ Fresh

\* a live connection fails; it does so only while the run can still
\* construct a replacement for every open slot
RemoveLive ==
  \E c \in Conns :
    /\ c <= created
    /\ poolRef[c]
    /\ created + config.connectionLimit - Len(allConnections) < MaxConns
    /\ Becomes(removeFromPool(St, c))

NextLive ==
  \/ GetConnection
  \/ RunTick
  \/ ConnectDone
  \/ Release
  \/ RemoveLive
  \/ Sweep
  \/ AdvanceClock

\* the nextTick queue drains, every establishment completes, every consumer
\* that holds a connection releases it, and the interval timer keeps firing
SpecLive ==
  /\ InitLive
  /\ [][NextLive]_vars
  /\ WF_vars(RunTick)
  /\ WF_vars(ConnectDone)
  /\ WF_vars(Release)
  /\ WF_vars(Sweep)

\* ------------------------------------------------------- derived notions
Buckets == Range(freeConnections) \cup Range(extraConnections)

\* positions of a queue that hold the connection
Occurrences(q, c) == Cardinality({i \in 1..Len(q) : q[i] = c})

\* continuations that were placed in the waiter queue at some time
Waiters == Range(waitOrder)

\* no connection was ever forcibly removed
NoRemoval == \A c \in 1..created : poolRef[c]

\* -------------------------------------------------------------- claim C1
\* C1: with connectionLimit N > 0 the number of connections tracked in
\* allConnections never exceeds N, in any reachable state.
C1_AllConnectionsBounded ==
  config.connectionLimit > 0 =>
    Len(allConnections) <= config.connectionLimit

\* the limit is reached again by the replacement connection that a waiting
\* request created after a removal
C1_Witness ==
  /\ config.connectionLimit = 2
  /\ Len(allConnections) = 2
  /\ created = 3
  /\ Len(waitOrder) > 0

\* -------------------------------------------------------------- claim C2
\* C2: every continuation passed to getConnection is invoked at most once,
\* also when it was queued and when it was re-run after the release of a
\* removed connection.
C2_AtMostOnce == \A r \in Reqs : cbCount[r] <= 1

\* a queued request that was re-run, created a connection and got the
\* establishment's failure
C2_Witness ==
  \E r \in Waiters : cbCount[r] = 1 /\ cbErr[r] = "ConnectError"

\* -------------------------------------------------------------- claim C3
\* C3: a connection has one holder at a time: the consumers holding it, the
\* pending deliveries of it and its places in freeConnections and
\* extraConnections number at most one altogether.
Holders(c) ==
  Cardinality({r \in Reqs : held[r] /\ cbConn[r] = c})
  + Cardinality({i \in 1..Len(ticks) : ticks[i].connection = c})
  + Occurrences(freeConnections, c)
  + Occurrences(extraConnections, c)

C3_SingleOwner == \A c \in Conns : Holders(c) <= 1

\* a connection that one consumer gave back is now held by another one
C3_Witness ==
  \E r1, r2 \in Reqs :
    /\ r1 # r2
    /\ cbCount[r1] = 1 /\ ~held[r1] /\ cbConn[r1] # NoConn
    /\ held[r2] /\ cbConn[r2] = cbConn[r1]

\* -------------------------------------------------------------- claim C4
\* C4: a release of a connection that still references the pool, made while
\* a request waits, dequeues the oldest waiter and schedules exactly that
\* connection for it; the scheduled continuation then runs with that
\* connection; and a connection scheduled for delivery is in neither
\* freeConnections nor extraConnections.
ReleaseHandsOff ==
  \A r \in Reqs :
    (held[r] /\ ~held'[r] /\ poolRef[cbConn[r]] /\ Len(connectionQueue) > 0)
      => /\ connectionQueue' = Tail(connectionQueue)
         /\ ticks' = Append(ticks,
                       CbTask(Head(connectionQueue), "none", cbConn[r]))
         /\ freeConnections' = freeConnections
         /\ extraConnections' = extraConnections

DeliveryRuns ==
  (Len(ticks) > 0 /\ Head(ticks).type = "cb" /\ ticks' = Tail(ticks))
    => /\ cbConn'[Head(ticks).cb] = Head(ticks).connection
       /\ cbErr'[Head(ticks).cb] = Head(ticks).err
       /\ cbCount'[Head(ticks).cb] = cbCount[Head(ticks).cb] + 1

ScheduledNotIdle ==
  \A i \in 1..Len(ticks) :
    ticks[i].connection # NoConn => ticks[i].connection \notin Buckets

C4_DirectHandoff ==
  /\ [][ReleaseHandsOff /\ DeliveryRuns]_vars
  /\ []ScheduledNotIdle

\* a handoff is pending: no connection was ever removed, so the waiter's
\* delivery can only come from a release, and a further request still waits
C4_Witness ==
  /\ NoRemoval
  /\ Len(connectionQueue) > 0
  /\ \E i \in 1..Len(ticks) :
       ticks[i].cb \in Waiters /\ ticks[i].connection # NoConn

\* -------------------------------------------------------------- claim C5
\* C5: with connectionLimit N > 0, waitForConnections and queueLimit 0, a
\* getConnection call made while N connections are tracked and none is idle
\* is appended to the waiter queue and not resolved; a release of a
\* connection that still references the pool schedules the oldest waiter;
\* and as long as no connection was removed the waiters are resolved, once
\* each and with a connection, in the order they were queued.
QueueingConfig ==
  /\ config.connectionLimit > 0
  /\ config.waitForConnections
  /\ config.queueLimit = 0

AcquireAtLimitQueues ==
  ( /\ QueueingConfig
    /\ issued' = issued + 1
    /\ ~closed
    /\ Len(freeConnections) = 0
    /\ Len(extraConnections) = 0
    /\ Len(allConnections) >= config.connectionLimit )
  => /\ connectionQueue' = Append(connectionQueue, issued + 1)
     /\ cbCount' = cbCount
     /\ ticks' = ticks

ReleaseResolvesOldest ==
  \A r \in Reqs :
    ( /\ QueueingConfig
      /\ held[r] /\ ~held'[r]
      /\ poolRef[cbConn[r]]
      /\ Len(connectionQueue) > 0 )
    => \E i \in 1..Len(ticks') :
         ticks'[i] = CbTask(Head(connectionQueue), "none", cbConn[r])

ResolvedWaiters  == SelectSeq(resolved, LAMBDA r : r \in Waiters)
ScheduledWaiters ==
  LET ts == SelectSeq(ticks, LAMBDA t : t.cb \in Waiters)
  IN [i \in 1..Len(ts) |-> ts[i].cb]

WaitersInOrder ==
  (QueueingConfig /\ NoRemoval) =>
    /\ waitOrder = ResolvedWaiters \o ScheduledWaiters \o connectionQueue
    /\ \A i \in 1..Len(ResolvedWaiters) :
         LET r == ResolvedWaiters[i]
         IN cbCount[r] = 1 /\ cbErr[r] = "none" /\ cbConn[r] # NoConn

C5_QueuedThenFifo ==
  /\ [][AcquireAtLimitQueues /\ ReleaseResolvesOldest]_vars
  /\ []WaitersInOrder

\* two requests waited and both were resolved, by two successive releases
C5_Witness ==
  /\ QueueingConfig
  /\ NoRemoval
  /\ Len(waitOrder) = 2
  /\ ResolvedWaiters = waitOrder

\* -------------------------------------------------------------- claim C6
\* C6: with queueLimit Q > 0 the waiter queue never holds more than Q
\* requests; a getConnection call that reaches the queueing step while Q
\* requests wait is failed with QueueLimitReached inside the call, never
\* through the nextTick queue, and leaves the four collections unchanged.
QueueBounded ==
  config.queueLimit > 0 => Len(connectionQueue) <= config.queueLimit

QueueLimitNeverDeferred ==
  \A i \in 1..Len(ticks) : ticks[i].err # "QueueLimitReached"

RejectedInsideCall ==
  ( /\ config.queueLimit > 0
    /\ issued' = issued + 1
    /\ ~closed
    /\ Len(freeConnections) = 0
    /\ Len(extraConnections) = 0
    /\ config.connectionLimit # 0
    /\ Len(allConnections) >= config.connectionLimit
    /\ config.waitForConnections
    /\ Len(connectionQueue) >= config.queueLimit )
  => /\ cbCount'[issued + 1] = 1
     /\ cbErr'[issued + 1] = "QueueLimitReached"
     /\ ticks' = ticks
     /\ UNCHANGED << allConnections, freeConnections, extraConnections,
                     connectionQueue >>

C6_QueueLimit ==
  /\ [][RejectedInsideCall]_vars
  /\ [](QueueBounded /\ QueueLimitNeverDeferred)

\* a request was rejected and the queue is still full
C6_Witness ==
  /\ config.queueLimit > 0
  /\ Len(connectionQueue) = config.queueLimit
  /\ \E r \in Reqs : cbCount[r] = 1 /\ cbErr[r] = "QueueLimitReached"

\* -------------------------------------------------------------- claim C7
\* C7: with connectionLimit = 0 the waiter queue is always empty and no
\* request is failed, now or by a pending tick, with NoConnectionsAvailable
\* or QueueLimitReached.
CapacityErrors == {"NoConnectionsAvailable", "QueueLimitReached"}

C7_UnboundedNeverQueues ==
  config.connectionLimit = 0 =>
    /\ Len(connectionQueue) = 0
    /\ \A r \in Reqs : cbErr[r] \notin CapacityErrors
    /\ \A i \in 1..Len(ticks) : ticks[i].err \notin CapacityErrors

\* every request issued created a connection of its own
C7_Witness ==
  /\ config.connectionLimit = 0
  /\ issued = 3
  /\ Len(allConnections) = 3

\* -------------------------------------------------------------- claim C8
\* C8: once end has marked the pool closed, no continuation passed to
\* getConnection is invoked with a connection.
C8_NoConnectionAfterClose ==
  [][closed =>
       \A r \in Reqs : cbCount'[r] > cbCount[r] => cbConn'[r] = NoConn]_vars

\* -------------------------------------------------------------- claim C9
\* C9: the completion of an end call is invoked at most once; it has been
\* invoked once when every graceful end has reported; and an end call made
\* with no tracked connection invokes it inside the call with no error.
EndCompletesOnce ==
  \A e \in Ends :
    /\ endCbCount[e] <= 1
    /\ (e <= endCalls /\ endPending[e] = {}) => endCbCount[e] = 1

EndOfEmptyPool ==
  (endCalls' = endCalls + 1 /\ Len(allConnections) = 0)
    => /\ endCbCount'[endCalls + 1] = 1
       /\ endErr'[endCalls + 1] = NoConn

C9_EndExactlyOnce ==
  /\ [][EndOfEmptyPool]_vars
  /\ []EndCompletesOnce

\* every graceful end has reported, a success first and a failure after it
C9_Witness ==
  \E e \in Ends :
    /\ e <= endCalls
    /\ endPending[e] = {}
    /\ closedConnections[e] >= 1
    /\ endFirstFail[e] # NoConn
    /\ endCbCount[e] = 1

\* ------------------------------------------------------------- claim C10
\* C10: while no graceful end has reported a failure, the completion of end
\* is not invoked before every connection tracked at the call has reported;
\* once one has reported a failure, the completion has been invoked with
\* the first failure reported.
C10_EndWaitsForAll ==
  \A e \in Ends :
    /\ (endCbCount[e] >= 1 /\ endFirstFail[e] = NoConn) => endPending[e] = {}
    /\ endFirstFail[e] # NoConn =>
         (endCbCount[e] = 1 /\ endErr[e] = endFirstFail[e])

\* ------------------------------------------------------------- claim C11
\* C11: a sweep tick destroys every connection that has been in
\* extraConnections for longer than idleTimeout: after the tick it is in
\* neither extraConnections nor allConnections.
C11_SweepEvictsExpired ==
  [][Sweep =>
       \A c \in Range(extraConnections) :
         now > lastReleased[c] + config.idleTimeout
           => /\ c \notin Range(extraConnections')
              /\ c \notin Range(allConnections')]_vars

\* ------------------------------------------------------------- claim C12
\* C12: extraConnections is ordered ascending by lastReleased from front
\* to back in every reachable state.
C12_ExtraSorted ==
  \A i, j \in 1..Len(extraConnections) :
    i < j =>
      lastReleased[extraConnections[i]] <= lastReleased[extraConnections[j]]

\* ------------------------------------------------------------- claim C13
\* C13: freeConnections and extraConnections hold no connection in common
\* and none twice, and every connection in either of them is in
\* allConnections.
C13_IdleBucketsDisjoint ==
  \A c \in Conns :
    /\ Occurrences(freeConnections, c) + Occurrences(extraConnections, c) <= 1
    /\ c \in Buckets => c \in Range(allConnections)

\* both buckets are in use and a consumer has given back a connection that
\* was removed from the pool
C13_Witness ==
  /\ Len(freeConnections) > 0
  /\ Len(extraConnections) > 0
  /\ \E r \in Reqs :
       /\ cbCount[r] = 1 /\ cbConn[r] # NoConn /\ ~held[r]
       /\ ~poolRef[cbConn[r]]
       /\ cbConn[r] \notin Range(allConnections)

\* ------------------------------------------------------------- claim C14
\* C14: a removal of a connection that is in none of allConnections,
\* freeConnections and extraConnections leaves the three collections as
\* they were, content and order, and still notifies the oldest waiter: it
\* is dequeued and getConnection is scheduled for it.
RemovalOfAbsentConnection(c) ==
  /\ c <= created
  /\ c \notin Range(allConnections)
  /\ c \notin Buckets
  /\ Becomes(removeFromPool(St, c))

C14_AbsentRemovalKeepsBuckets ==
  [][\A c \in Conns :
       RemovalOfAbsentConnection(c) =>
         /\ UNCHANGED << allConnections, freeConnections, extraConnections >>
         /\ IF Len(connectionQueue) > 0
            THEN /\ connectionQueue' = Tail(connectionQueue)
                 /\ ticks' = Append(ticks, GetTask(Head(connectionQueue)))
            ELSE UNCHANGED << connectionQueue, ticks >>]_vars

\* ------------------------------------------------------------- claim C15
\* C15: of two requests that both entered the waiter queue, the one that
\* entered first is never resolved after the other.  A request first enters
\* the queue inside its own getConnection call, so the order of first entry
\* is the order in which the calls were issued.
C15_StrictFifo ==
  \A i, j \in 1..Len(resolved) :
    (i < j /\ resolved[i] \in Waiters /\ resolved[j] \in Waiters)
      => resolved[i] < resolved[j]

\* ------------------------------------------------------------- claim C16
\* C16: when the establishment of a connection completes, the request that
\* created it is resolved once: with PoolClosed and no connection if the
\* pool was closed meanwhile, whatever the establishment reported;
\* otherwise with the establishment's error and no 'connection' event, or
\* with the connection after a 'connection' event for it.
ConnectOutcome ==
  \A c \in Conns :
    (connecting[c] # NoConn /\ connecting'[c] = NoConn) =>
      LET r == connecting[c]
      IN /\ cbCount'[r] = cbCount[r] + 1
         /\ closed =>
              /\ cbErr'[r] = "PoolClosed"
              /\ cbConn'[r] = NoConn
              /\ ~held'[r]
              /\ emitted' = emitted
         /\ ~closed =>
              \/ /\ cbErr'[r] = "ConnectError"
                 /\ cbConn'[r] = NoConn
                 /\ emitted' = emitted
              \/ /\ cbErr'[r] = "none"
                 /\ cbConn'[r] = c
                 /\ emitted' = emitted \cup {c}

\* no connection is announced or delivered by connect once the pool closed
NotAnnouncedAfterClose ==
  \A c \in Conns :
    (closed /\ connecting[c] # NoConn) => c \notin emitted

C16_ClosedWhileConnecting ==
  /\ [][ConnectOutcome]_vars
  /\ []NotAnnouncedAfterClose

\* the only request issued created the only connection and was failed with
\* PoolClosed: end was called while the establishment was in flight
C16_Witness ==
  /\ issued = 1
  /\ created = 1
  /\ closed
  /\ cbCount[1] = 1
  /\ cbErr[1] = "PoolClosed"

\* ------------------------------------------------------------- claim C17
\* C17: if the idle-eviction timer is active, allConnections is non-empty
\* and the pool is not closed; while the pool is open, allConnections
\* non-empty implies that the timer is active.
C17_TimerTracksConnections ==
  /\ expiredTimer => (Len(allConnections) > 0 /\ ~closed)
  /\ (~closed /\ Len(allConnections) > 0) => expiredTimer

\* with connectionLimit 1 the second connection was created after the
\* first was removed: the timer was stopped and started again
C17_Witness ==
  /\ config.connectionLimit = 1
  /\ created = 2
  /\ allConnections = << 2 >>
  /\ expiredTimer

\* ------------------------------------------------------------- claim C20
\* C20: while a request waits in the queue, freeConnections and
\* extraConnections are both empty.
C20_NoWaiterWhileIdle ==
  Len(connectionQueue) > 0 =>
    (Len(freeConnections) = 0 /\ Len(extraConnections) = 0)

\* a request waits although a live connection was given back earlier
C20_Witness ==
  /\ Len(connectionQueue) > 0
  /\ \E r \in Reqs :
       /\ cbCount[r] = 1 /\ cbConn[r] # NoConn /\ ~held[r]
       /\ poolRef[cbConn[r]]

\* ------------------------------------------------------------- claim C18
\* C18: PoolConfig yields connectionLimit = the provided value or 10,
\* minConnections = the smaller of connectionLimit and the provided value
\* (connectionLimit when absent), idleTimeout = the larger of 15 and the
\* provided value (300 when absent); hence minConnections <=
\* connectionLimit, idleTimeout >= 15, and connectionLimit = 0 forces
\* minConnections = 0.
C18_ConfigNormalised ==
  LET limit   == IF opts.connectionLimit = Null THEN 10
                 ELSE opts.connectionLimit
      minIn   == IF opts.minConnections = Null THEN limit
                 ELSE opts.minConnections
      idleIn  == IF opts.idleTimeout = Null THEN 300 ELSE opts.idleTimeout
  IN /\ config.connectionLimit = limit
     /\ config.minConnections = (IF minIn < limit THEN minIn ELSE limit)
     /\ config.idleTimeout = (IF idleIn > 15 THEN idleIn ELSE 15)
     /\ config.minConnections <= config.connectionLimit
     /\ config.idleTimeout >= 15
     /\ config.connectionLimit = 0 => config.minConnections = 0

\* an unbounded pool asked for 3 minimum connections and a 14 s timeout
C18_Witness ==
  /\ opts.connectionLimit = 0
  /\ opts.minConnections = 3
  /\ opts.idleTimeout = 14
  /\ config.minConnections = 0
  /\ config.idleTimeout = 15

\* ------------------------------------------------------------- claim C19
\* C19: in a pool that is never shut down and whose consumers release
\* every connection they receive, every request placed in the waiter queue
\* is eventually resolved.
C19_WaitersEventuallyResolved ==
  \A r \in Reqs :
    (r \in Range(connectionQueue)) ~> (cbCount[r] >= 1)

====
